---- MODULE Spec2Model ----
(***************************************************************************)
(* The virtual file-descriptor table of src/shims/files.rs: FdTable with   *)
(* its lowest-free-slot allocation, the reference-counted, identity-tagged *)
(* FileDescriptionRef / WeakFileDescriptionRef handles, and close_ref with *)
(* the epoll interest registry.                                            *)
(***************************************************************************)
EXTENDS Integers, Sequences, FiniteSets, TLC

\* Bounds of the model.
MaxFd == 7        \* largest descriptor number the table is allowed to issue
MaxMin == 5       \* largest min_fd_num a caller passes
MaxRes == 4       \* file descriptions ever created (cap on the id allocator)
MaxOpen == 3      \* descriptors open at a time
MaxHeld == 2      \* strong handles callers own at a time
MaxStrong == 2    \* cap on the strong count of one file description
MaxWeak == 1      \* weak handles callers own at a time
MaxInterests == 1 \* entries of the epoll interest registry
MaxLen == 2       \* size of the guest buffer and largest requested length

VARIABLES
    fds,                        \* FdTable.fds: descriptor number -> handle
    next_file_description_id,   \* FdTable.next_file_description_id
    rc,                         \* the Rc<FdIdWith<T>> allocations, in creation order
    held,                       \* strong handles owned by callers, per allocation
    wheld,                      \* weak handles owned by callers, per allocation
    epoll_interests,            \* ecx.machine.epoll_interests: the ids with an entry
    close_calls,                \* how often FileDescription::close ran, per allocation
    panicked,                   \* an unwrap()/assert_eq! failed
    ecx,                        \* the interpreter context: guest buffer, result place, last error
    last                        \* the last call and what it returned

vars == <<fds, next_file_description_id, rc, held, wheld, epoll_interests,
          close_calls, panicked, ecx, last>>

\* ---------------------------------------------------------------- values

\* Option<T>: None is the empty sequence, Some(x) the one-element sequence.
NoneV == <<>>
Some(x) == <<x>>

\* The concrete file descriptions of this file.
Inners == {"Stdin", "Stdout", "Stderr", "NullOutput"}

\* The file descriptions callers create after init.
NewInners == {"NullOutput"}

Res == 1..MaxRes
FdNums == 0..MaxFd
MinNums == 0..MaxMin

Min(S) == CHOOSE x \in S : \A y \in S : x <= y
Max(S) == CHOOSE x \in S : \A y \in S : x >= y

\* A call, what it returned, and the calls it made on the machine and on the
\* inner value, in program order.
Call(op, ret) == [op |-> op, ret |-> ret, did |-> <<>>]

\* ------------------------------------------------------------ allocation

\* BTreeMap iterates in key order.
RECURSIVE Ascending(_)
Ascending(S) == IF S = {} THEN <<>> ELSE <<Min(S)>> \o Ascending(S \ {Min(S)})

\* self.fds.range(min_fd_num..): the keys >= min_fd_num, ascending.
range(keys, min_fd_num) == Ascending({k \in keys : k >= min_fd_num})

\* Mutant of find_map: answers the key it stopped at instead of the counter.
RECURSIVE find_map_key(_, _)
find_map_key(ks, counter) ==
    IF ks = <<>> THEN NoneV
    ELSE IF Head(ks) # counter THEN Some(Head(ks))
    ELSE find_map_key(Tail(ks), counter + 1)

\* .zip(min_fd_num..).find_map(..): the first counter that differs from the key
\* it is paired with.
RECURSIVE find_map(_, _)
find_map(ks, counter) ==
    IF ks = <<>> THEN NoneV
    ELSE IF Head(ks) # counter THEN Some(counter)
    ELSE find_map(Tail(ks), counter + 1)

candidate_new_fd(keys, min_fd_num) == find_map(range(keys, min_fd_num), min_fd_num)

\* self.fds.last_key_value().map(|(fd_num, _)| fd_num.strict_add(1))
last_key_plus_one(keys) == IF keys = {} THEN NoneV ELSE Some(Max(keys) + 1)

\* Mutant of new_fd_num: an empty table starts at 0 whatever min_fd_num is.
new_fd_num_from_zero(keys, min_fd_num) ==
    LET c == candidate_new_fd(keys, min_fd_num)
        l == last_key_plus_one(keys)
    IN  IF c # NoneV THEN c[1]
        ELSE IF l # NoneV THEN l[1]
        ELSE 0

\* The number insert_with_min_num binds: the gap found by the scan, else the
\* greatest key plus one, else min_fd_num.
new_fd_num(keys, min_fd_num) ==
    LET c == candidate_new_fd(keys, min_fd_num)
        l == last_key_plus_one(keys)
    IN  IF c # NoneV THEN c[1]
        ELSE IF l # NoneV THEN l[1]
        ELSE min_fd_num

\* Mutant of try_insert: every entry is bound to the handle given.
try_insert_rebinding(f, k, h) ==
    IF k \in DOMAIN f THEN NoneV ELSE Some([j \in DOMAIN f \cup {k} |-> h])

\* self.fds.try_insert(new_fd_num, file_handle): Err when the key is occupied.
try_insert(f, k, h) == IF k \in DOMAIN f THEN NoneV ELSE Some((k :> h) @@ f)

\* ------------------------------------------------------------ identifiers

\* Mutant of next_id: the allocator does not advance.
next_id_stuck(n) == n

\* FdId(self.next_file_description_id.0.strict_add(1))
next_id(n) == n + 1

\* Rc::new(FdIdWith { id, inner }): a fresh allocation with one strong handle.
rc_new(id, inner) == [id |-> id, inner |-> inner, strong |-> 1, weak |-> 0]

\* FileDescriptionRef::id
id(h) == rc[h].id

\* ------------------------------------------------------- guest and host

\* The bytes the host delivers: two values, both different from the zero the
\* guest buffer starts with; no code of this file looks at the value of a byte.
Bytes == {1, 2}
Lens == 0..MaxLen

\* The sequences over S of length n.
SeqsOfLen(S, n) == [1..n -> S]

\* The interpreter context as far as read and write touch it: the guest buffer
\* behind ptr (zeroed at the start), the result place dest, and the last error.
ecx_new == [mem |-> [i \in 1..MaxLen |-> 0], dest |-> NoneV, last_error |-> NoneV]

\* The errors a host stream reports.
IoErrors == {"BrokenPipe"}

\* What the host does with Read::read on a buffer of len bytes: it fills the
\* buffer and reports how many bytes it read, or it fails.
HostReads(len) ==
    {[ok |-> TRUE, bytes |-> b, size |-> k, err |-> NoneV] :
        b \in SeqsOfLen(Bytes, len), k \in 0..len}
    \cup {[ok |-> FALSE, bytes |-> [i \in 1..len |-> 0], size |-> 0, err |-> Some(e)] :
             e \in IoErrors}

\* What the host does with Write::write of len bytes, and with the flush that
\* follows it on stdout: the write reports how many bytes it took, or fails;
\* the flush succeeds or fails.
HostWrites(len) ==
    {[ok |-> TRUE, size |-> k, err |-> NoneV, flush_ok |-> f] :
        k \in 0..len, f \in BOOLEAN}
    \cup {[ok |-> FALSE, size |-> 0, err |-> Some(e), flush_ok |-> f] :
             e \in IoErrors, f \in BOOLEAN}

\* Result<u64, IoError>, as handed to the completion callback.
Ok(x) == <<"Ok", x>>
Err(e) == <<"Err", e>>

\* The io::Result<usize> a host call returns.
host_result(host) == IF host.ok THEN Ok(host.size) ELSE Err(host.err[1])

\* Mutant of Prefix: the whole buffer.
Whole(bytes, n) == bytes

\* bytes[..n]
Prefix(bytes, n) == SubSeq(bytes, 1, n)

\* ecx.write_bytes_ptr(ptr, bytes): the bytes land at the start of the guest
\* buffer, the rest of the buffer is left alone.
write_bytes_ptr(e, bytes) ==
    [e EXCEPT !.mem = [i \in 1..MaxLen |-> IF i <= Len(bytes) THEN bytes[i] ELSE @[i]]]

\* ecx.read_bytes_ptr_strip_provenance(ptr, Size::from_bytes(len))
read_bytes_ptr_strip_provenance(e, len) == SubSeq(e.mem, 1, len)

\* this.write_int(v, dest)
write_int(e, v) == [e EXCEPT !.dest = Some(v)]

\* ecx.set_last_error_and_return(e, dest): the error code is set and dest gets
\* the -1 of the return convention.
set_last_error_and_return(e, err) == [e EXCEPT !.last_error = Some(err), !.dest = Some(-1)]

\* helpers::isolation_abort_error: always the isolation-violation condition.
isolation_abort_error == "IsolationViolation"

\* throw_unsup_format!
throw_unsup_format == "Unsupported"

\* What a call leaves behind: the context, the InterpResult it returns (or
\* "Panic"), and the calls it made, in program order.
Io(e, ret, did) == [ecx |-> e, ret |-> ret, did |-> did]

\* ------------------------------------------------------------------ init

\* FdTable::new followed by the insert_new calls of FdTable::init, as a value
\* [fds, next, rc, ok]; ok says that every assert_eq! and unwrap passed.
table_new == [fds |-> <<>>, next |-> 0, rc |-> <<>>, ok |-> TRUE, fd |-> 0]

insert_new_on(t, inner) ==
    LET heap == Append(t.rc, rc_new(t.next, inner))
        n == new_fd_num(DOMAIN t.fds, 0)
        ins == try_insert(t.fds, n, Len(heap))
    IN  [fds |-> IF ins = NoneV THEN t.fds ELSE ins[1],
         next |-> next_id(t.next),
         rc |-> heap,
         ok |-> t.ok /\ ins # NoneV,
         fd |-> n]

assert_eq(t, n) == [t EXCEPT !.ok = t.ok /\ t.fd = n]

\* Mutant of init: when muted, descriptor 2 is a second handle to the null
\* sink of descriptor 1.
init_shared_sink(mute_stdout_stderr) ==
    LET t0 == insert_new_on(table_new, "Stdin")
        t1 == assert_eq(insert_new_on(t0, "NullOutput"), 1)
    IN  IF mute_stdout_stderr
        THEN [t1 EXCEPT !.fds = (2 :> t1.fds[1]) @@ t1.fds,
                        !.rc = [t1.rc EXCEPT ![t1.fds[1]].strong = 2],
                        !.next = next_id(t1.next)]
        ELSE assert_eq(insert_new_on(assert_eq(insert_new_on(t0, "Stdout"), 1),
                                     "Stderr"), 2)

init(mute_stdout_stderr) ==
    LET t0 == insert_new_on(table_new, "Stdin")
    IN  IF mute_stdout_stderr
        THEN assert_eq(insert_new_on(assert_eq(insert_new_on(t0, "NullOutput"), 1),
                                     "NullOutput"), 2)
        ELSE assert_eq(insert_new_on(assert_eq(insert_new_on(t0, "Stdout"), 1),
                                     "Stderr"), 2)

\* The machine right after FdTable::init(mute_stdout_stderr).
init_state(mute_stdout_stderr) ==
    LET t == init(mute_stdout_stderr) IN
    /\ fds = t.fds
    /\ next_file_description_id = t.next
    /\ rc = t.rc
    /\ held = [r \in Res |-> 0]
    /\ wheld = [r \in Res |-> 0]
    /\ epoll_interests = {}
    /\ close_calls = [r \in Res |-> 0]
    /\ panicked = ~t.ok
    /\ ecx = ecx_new
    /\ last = Call("init", NoneV)

\* Either setting of mute_stdout_stderr.
Init == \E mute_stdout_stderr \in BOOLEAN : init_state(mute_stdout_stderr)

\* The default machine: stdout and stderr are not muted.
InitLoud == init_state(FALSE)

\* --------------------------------------------------------------- actions

Live == 1..Len(rc)

\* f[1] + .. + f[n]
RECURSIVE Sum(_, _)
Sum(f, n) == IF n = 0 THEN 0 ELSE f[n] + Sum(f, n - 1)

\* Room for one more handle in a caller's hands, and for one more descriptor.
CanHold == Sum(held, MaxRes) < MaxHeld
CanHoldWeak == Sum(wheld, MaxRes) < MaxWeak
CanOpen == Cardinality(DOMAIN fds) < MaxOpen

\* Rc::clone / Rc::upgrade: one more strong handle.
inc_strong(heap, h) == [heap EXCEPT ![h].strong = @ + 1]

\* Dropping an Rc: one strong handle fewer; at zero the inner value is dropped.
dec_strong(heap, h) == [heap EXCEPT ![h].strong = @ - 1]

\* Mutant of into_inner: every handle is taken for the last one.
into_inner_always(strong) == TRUE

\* Rc::into_inner(self.0): Some exactly for the last strong handle.
into_inner(strong) == strong = 1

\* FileDescription::close of the inner value: none of the four file
\* descriptions of this file overrides the default, which throws unsupported.
close(inner) == "Unsupported"

\* What one call of insert_with_min_num does to the table, under the name op.
insert_at(op, h, min_fd_num) ==
    LET n == new_fd_num(DOMAIN fds, min_fd_num)
        ins == try_insert(fds, n, h)
    IN  /\ ~panicked
        /\ h \in Live
        /\ held[h] > 0
        /\ CanOpen
        /\ n <= MaxFd
        /\ IF ins = NoneV
           THEN /\ panicked' = TRUE
                /\ UNCHANGED fds
           ELSE /\ fds' = ins[1]
                /\ UNCHANGED panicked
        /\ held' = [held EXCEPT ![h] = @ - 1]
        /\ last' = Call(op, Some(n))
        /\ UNCHANGED <<ecx, next_file_description_id, rc, wheld, epoll_interests,
                       close_calls>>

\* FdTable::new_ref
new_ref(inner) ==
    /\ ~panicked
    /\ next_file_description_id < MaxRes
    /\ CanHold
    /\ rc' = Append(rc, rc_new(next_file_description_id, inner))
    /\ next_file_description_id' = next_id(next_file_description_id)
    /\ held' = [held EXCEPT ![Len(rc) + 1] = @ + 1]
    /\ last' = Call("new_ref", Some(Len(rc) + 1))
    /\ UNCHANGED <<ecx, fds, wheld, epoll_interests, close_calls, panicked>>

\* FdTable::insert_with_min_num
insert_with_min_num(h, min_fd_num) == insert_at("insert_with_min_num", h, min_fd_num)

\* Mutant of insert: the search starts at 1.
insert_from_one(h) == insert_at("insert", h, 1)

\* FdTable::insert
insert(h) == insert_at("insert", h, 0)

\* FdTable::insert_new: new_ref, then insert of the fresh handle.
insert_new(inner) ==
    LET h == Len(rc) + 1
        n == new_fd_num(DOMAIN fds, 0)
        ins == try_insert(fds, n, h)
    IN  /\ ~panicked
        /\ next_file_description_id < MaxRes
        /\ CanOpen
        /\ n <= MaxFd
        /\ rc' = Append(rc, rc_new(next_file_description_id, inner))
        /\ next_file_description_id' = next_id(next_file_description_id)
        /\ IF ins = NoneV
           THEN /\ panicked' = TRUE
                /\ UNCHANGED fds
           ELSE /\ fds' = ins[1]
                /\ UNCHANGED panicked
        /\ last' = Call("insert_new", Some(n))
        /\ UNCHANGED <<ecx, held, wheld, epoll_interests, close_calls>>

\* Mutant of get: the handle of the slot is handed out without cloning it.
get_without_clone(fd_num) ==
    /\ ~panicked
    /\ IF fd_num \in DOMAIN fds
       THEN /\ CanHold
            /\ held' = [held EXCEPT ![fds[fd_num]] = @ + 1]
            /\ last' = Call("get", Some(fds[fd_num]))
       ELSE /\ UNCHANGED held
            /\ last' = Call("get", NoneV)
    /\ UNCHANGED <<ecx, fds, next_file_description_id, rc, wheld, epoll_interests,
                   close_calls, panicked>>

\* FdTable::get
get(fd_num) ==
    /\ ~panicked
    /\ IF fd_num \in DOMAIN fds
       THEN /\ rc[fds[fd_num]].strong < MaxStrong
            /\ CanHold
            /\ rc' = inc_strong(rc, fds[fd_num])
            /\ held' = [held EXCEPT ![fds[fd_num]] = @ + 1]
            /\ last' = Call("get", Some(fds[fd_num]))
       ELSE /\ UNCHANGED <<rc, held>>
            /\ last' = Call("get", NoneV)
    /\ UNCHANGED <<ecx, fds, next_file_description_id, wheld, epoll_interests,
                   close_calls, panicked>>

\* Mutant of remove: the handle of the slot is dropped, not handed over.
remove_dropping(fd_num) ==
    /\ ~panicked
    /\ IF fd_num \in DOMAIN fds
       THEN /\ fds' = [k \in DOMAIN fds \ {fd_num} |-> fds[k]]
            /\ rc' = dec_strong(rc, fds[fd_num])
            /\ last' = Call("remove", Some(fds[fd_num]))
       ELSE /\ UNCHANGED <<fds, rc>>
            /\ last' = Call("remove", NoneV)
    /\ UNCHANGED <<ecx, next_file_description_id, held, wheld, epoll_interests,
                   close_calls, panicked>>

\* FdTable::is_fd_num
is_fd_num(fd_num) == fd_num \in DOMAIN fds

\* FdTable::remove
remove(fd_num) ==
    /\ ~panicked
    /\ IF fd_num \in DOMAIN fds
       THEN /\ CanHold
            /\ fds' = [k \in DOMAIN fds \ {fd_num} |-> fds[k]]
            /\ held' = [held EXCEPT ![fds[fd_num]] = @ + 1]
            /\ last' = Call("remove", Some(fds[fd_num]))
       ELSE /\ UNCHANGED <<fds, held>>
            /\ last' = Call("remove", NoneV)
    /\ UNCHANGED <<ecx, next_file_description_id, rc, wheld, epoll_interests,
                   close_calls, panicked>>

\* Mutant of clone: a second handle without a second count.
clone_without_count(h) ==
    /\ ~panicked
    /\ h \in Live
    /\ held[h] > 0
    /\ rc[h].strong < MaxStrong
    /\ CanHold
    /\ held' = [held EXCEPT ![h] = @ + 1]
    /\ last' = Call("clone", Some(h))
    /\ UNCHANGED <<ecx, fds, next_file_description_id, rc, wheld, epoll_interests,
                   close_calls, panicked>>

\* <FileDescriptionRef as Clone>::clone
clone(h) ==
    /\ ~panicked
    /\ h \in Live
    /\ held[h] > 0
    /\ rc[h].strong < MaxStrong
    /\ CanHold
    /\ rc' = inc_strong(rc, h)
    /\ held' = [held EXCEPT ![h] = @ + 1]
    /\ last' = Call("clone", Some(h))
    /\ UNCHANGED <<ecx, fds, next_file_description_id, wheld, epoll_interests,
                   close_calls, panicked>>

\* Mutant of drop: dropping the last strong handle runs the close logic.
drop_closing(h) ==
    /\ ~panicked
    /\ h \in Live
    /\ held[h] > 0
    /\ rc' = dec_strong(rc, h)
    /\ held' = [held EXCEPT ![h] = @ - 1]
    /\ close_calls' = [close_calls EXCEPT ![h] = IF rc[h].strong = 1 THEN @ + 1 ELSE @]
    /\ last' = Call("drop", NoneV)
    /\ UNCHANGED <<ecx, fds, next_file_description_id, wheld, epoll_interests, panicked>>

\* A caller lets a FileDescriptionRef go out of scope: the Rc is dropped.
drop(h) ==
    /\ ~panicked
    /\ h \in Live
    /\ held[h] > 0
    /\ rc' = dec_strong(rc, h)
    /\ held' = [held EXCEPT ![h] = @ - 1]
    /\ last' = Call("drop", NoneV)
    /\ UNCHANGED <<ecx, fds, next_file_description_id, wheld, epoll_interests,
                   close_calls, panicked>>

\* Mutant of close_ref: the epoll interest is left in place.
close_ref_keeps_interest(h) ==
    /\ ~panicked
    /\ h \in Live
    /\ held[h] > 0
    /\ rc' = dec_strong(rc, h)
    /\ held' = [held EXCEPT ![h] = @ - 1]
    /\ IF into_inner(rc[h].strong)
       THEN /\ close_calls' = [close_calls EXCEPT ![h] = @ + 1]
            /\ last' = [Call("close_ref", Some(close(rc[h].inner)))
                           EXCEPT !.did = <<"close">>]
       ELSE /\ UNCHANGED close_calls
            /\ last' = Call("close_ref", Some("Ok"))
    /\ UNCHANGED <<ecx, fds, next_file_description_id, wheld, epoll_interests, panicked>>

\* FileDescriptionExt::close_ref
close_ref(h) ==
    /\ ~panicked
    /\ h \in Live
    /\ held[h] > 0
    /\ rc' = dec_strong(rc, h)
    /\ held' = [held EXCEPT ![h] = @ - 1]
    /\ IF into_inner(rc[h].strong)
       THEN /\ epoll_interests' = epoll_interests \ {rc[h].id}
            /\ close_calls' = [close_calls EXCEPT ![h] = @ + 1]
            /\ last' = [Call("close_ref", Some(close(rc[h].inner)))
                           EXCEPT !.did = <<"epoll_interests.remove", "close">>]
       ELSE /\ UNCHANGED <<epoll_interests, close_calls>>
            /\ last' = Call("close_ref", Some("Ok"))
    /\ UNCHANGED <<ecx, fds, next_file_description_id, wheld, panicked>>

\* Mutant of rc_downcast: the cast is not checked.
rc_downcast_unchecked(inner, T) == TRUE

\* Rc<dyn Any>::downcast::<FdIdWith<T>>: Ok exactly when the value is a T.
rc_downcast(inner, T) == inner = T

\* FileDescriptionRef<dyn FileDescription>::downcast::<T>: on a mismatch
\* .ok()? discards the Rc that Rc::downcast gives back, which drops it.
downcast(h, T) ==
    /\ ~panicked
    /\ h \in Live
    /\ held[h] > 0
    /\ IF rc_downcast(rc[h].inner, T)
       THEN /\ UNCHANGED <<rc, held>>
            /\ last' = Call("downcast", Some(h))
       ELSE /\ rc' = dec_strong(rc, h)
            /\ held' = [held EXCEPT ![h] = @ - 1]
            /\ last' = Call("downcast", NoneV)
    /\ UNCHANGED <<ecx, fds, next_file_description_id, wheld, epoll_interests,
                   close_calls, panicked>>

\* FileDescriptionRef::downgrade
downgrade(h) ==
    /\ ~panicked
    /\ h \in Live
    /\ held[h] > 0
    /\ CanHoldWeak
    /\ rc' = [rc EXCEPT ![h].weak = @ + 1]
    /\ wheld' = [wheld EXCEPT ![h] = @ + 1]
    /\ last' = Call("downgrade", Some(h))
    /\ UNCHANGED <<ecx, fds, next_file_description_id, held, epoll_interests,
                   close_calls, panicked>>

\* Mutant of rc_upgrade: a weak handle upgrades whatever the strong count.
rc_upgrade_always(strong) == TRUE

\* Rc's Weak::upgrade: None once the strong count is zero.
rc_upgrade(strong) == strong > 0

\* WeakFileDescriptionRef::upgrade
upgrade(w) ==
    /\ ~panicked
    /\ w \in Live
    /\ wheld[w] > 0
    /\ IF rc_upgrade(rc[w].strong)
       THEN /\ rc[w].strong < MaxStrong
            /\ CanHold
            /\ rc' = inc_strong(rc, w)
            /\ held' = [held EXCEPT ![w] = @ + 1]
            /\ last' = Call("upgrade", Some(w))
       ELSE /\ UNCHANGED <<rc, held>>
            /\ last' = Call("upgrade", NoneV)
    /\ UNCHANGED <<ecx, fds, next_file_description_id, wheld, epoll_interests,
                   close_calls, panicked>>

\* A caller lets a WeakFileDescriptionRef go out of scope.
drop_weak(w) ==
    /\ ~panicked
    /\ w \in Live
    /\ wheld[w] > 0
    /\ rc' = [rc EXCEPT ![w].weak = @ - 1]
    /\ wheld' = [wheld EXCEPT ![w] = @ - 1]
    /\ last' = Call("drop_weak", NoneV)
    /\ UNCHANGED <<ecx, fds, next_file_description_id, held, epoll_interests,
                   close_calls, panicked>>

\* The epoll shim registers an interest keyed by the id of a file description
\* it holds a strong handle to.
epoll_register(h) ==
    /\ ~panicked
    /\ h \in Live
    /\ held[h] > 0
    /\ id(h) \in epoll_interests \/ Cardinality(epoll_interests) < MaxInterests
    /\ epoll_interests' = epoll_interests \cup {id(h)}
    /\ last' = Call("epoll_register", NoneV)
    /\ UNCHANGED <<ecx, fds, next_file_description_id, rc, held, wheld, close_calls,
                   panicked>>

\* ------------------------------------------------------ read and write

\* EvalContextExt::return_write_success
return_write_success(e, actual_write_size) ==
    Io(write_int(e, actual_write_size), "Ok", << <<"write_int", actual_write_size>> >>)

\* EvalContextExt::return_read_success
return_read_success(e, bytes, actual_read_size) ==
    Io(write_int(write_bytes_ptr(e, Prefix(bytes, actual_read_size)), actual_read_size),
       "Ok",
       << <<"write_bytes_ptr", Prefix(bytes, actual_read_size)>>,
          <<"write_int", actual_read_size>> >>)

\* FileDescription::read and FileDescription::write, the defaults of the trait.
FileDescription_read(e) == Io(e, throw_unsup_format, <<>>)
FileDescription_write(e) == Io(e, throw_unsup_format, <<>>)

\* Mutant of Stdin_read: the isolation check is missing.
Stdin_read_unisolated(communicate_allowed, len, host, e) ==
    IF host.ok
    THEN Io(write_bytes_ptr(e, Prefix(host.bytes, host.size)),
            "Ok",
            << <<"Read::read", len, host_result(host)>>,
               <<"write_bytes_ptr", Prefix(host.bytes, host.size)>>,
               <<"finish.call", Ok(host.size)>> >>)
    ELSE Io(e, "Ok", << <<"Read::read", len, host_result(host)>>,
                          <<"finish.call", Err(host.err[1])>> >>)

\* Mutant of Stdin_read: a failed host read returns without the callback.
Stdin_read_swallowing(communicate_allowed, len, host, e) ==
    IF ~communicate_allowed
    THEN Io(e, isolation_abort_error, << <<"isolation_abort_error">> >>)
    ELSE IF host.ok
         THEN Io(write_bytes_ptr(e, Prefix(host.bytes, host.size)),
                 "Ok",
                 << <<"Read::read", len, host_result(host)>>,
                    <<"write_bytes_ptr", Prefix(host.bytes, host.size)>>,
                    <<"finish.call", Ok(host.size)>> >>)
         ELSE Io(e, "Ok", << <<"Read::read", len, host_result(host)>> >>)

\* <io::Stdin as FileDescription>::read; the callback is taken to return
\* normally.
Stdin_read(communicate_allowed, len, host, e) ==
    IF ~communicate_allowed
    THEN Io(e, isolation_abort_error, << <<"isolation_abort_error">> >>)
    ELSE IF host.ok
         THEN Io(write_bytes_ptr(e, Prefix(host.bytes, host.size)),
                 "Ok",
                 << <<"Read::read", len, host_result(host)>>,
                    <<"write_bytes_ptr", Prefix(host.bytes, host.size)>>,
                    <<"finish.call", Ok(host.size)>> >>)
         ELSE Io(e, "Ok", << <<"Read::read", len, host_result(host)>>,
                          <<"finish.call", Err(host.err[1])>> >>)

\* The match on the result of Write::write that ends both stream writes.
write_result(e, host) ==
    IF host.ok
    THEN return_write_success(e, host.size)
    ELSE Io(set_last_error_and_return(e, host.err[1]),
            "Ok",
            << <<"set_last_error_and_return", host.err[1]>> >>)

\* <io::Stdout as FileDescription>::write: io::stdout().flush().unwrap()
\* panics when the flush fails.
Stdout_write(communicate_allowed, len, host, e) ==
    LET bytes == read_bytes_ptr_strip_provenance(e, len)
        did == << <<"read_bytes_ptr_strip_provenance", len>>,
                  <<"Write::write", bytes>>,
                  <<"flush">> >>
        r == write_result(e, host)
    IN  IF host.flush_ok
        THEN Io(r.ecx, r.ret, did \o r.did)
        ELSE Io(e, "Panic", did)

\* <io::Stderr as FileDescription>::write
Stderr_write(communicate_allowed, len, host, e) ==
    LET bytes == read_bytes_ptr_strip_provenance(e, len)
        did == << <<"read_bytes_ptr_strip_provenance", len>>,
                  <<"Write::write", bytes>> >>
        r == write_result(e, host)
    IN  Io(r.ecx, r.ret, did \o r.did)

\* Mutant of NullOutput_write: nothing is written, and nothing is reported.
NullOutput_write_none(communicate_allowed, len, e) == return_write_success(e, 0)

\* <NullOutput as FileDescription>::write
NullOutput_write(communicate_allowed, len, e) == return_write_success(e, len)

\* The read and the write a file description answers with.
read_of(inner, communicate_allowed, len, host, e) ==
    IF inner = "Stdin" THEN Stdin_read(communicate_allowed, len, host, e)
    ELSE FileDescription_read(e)

write_of(inner, communicate_allowed, len, host, e) ==
    CASE inner = "Stdout" -> Stdout_write(communicate_allowed, len, host, e)
      [] inner = "Stderr" -> Stderr_write(communicate_allowed, len, host, e)
      [] inner = "NullOutput" -> NullOutput_write(communicate_allowed, len, e)
      [] OTHER -> FileDescription_write(e)

\* A call of read or write on the handle h, which it consumes: the handle is
\* dropped when the call returns.
io_call(op, h, r) ==
    /\ ~panicked
    /\ h \in Live
    /\ held[h] > 0
    /\ ecx' = r.ecx
    /\ last' = [op |-> op, ret |-> Some(r.ret), did |-> r.did]
    /\ panicked' = (r.ret = "Panic")
    /\ rc' = dec_strong(rc, h)
    /\ held' = [held EXCEPT ![h] = @ - 1]
    /\ UNCHANGED <<fds, next_file_description_id, wheld, epoll_interests, close_calls>>

\* The host answers only where the code asks it: Read::read is reached on
\* stdin with communication allowed, Write::write on stdout and stderr, and
\* the flush on stdout alone.
Unasked == [ok |-> FALSE, bytes |-> <<>>, size |-> 0, err |-> Some("Unasked"),
            flush_ok |-> TRUE]
ReadAnswers(inner, communicate_allowed, len) ==
    IF inner = "Stdin" /\ communicate_allowed THEN HostReads(len) ELSE {Unasked}
WriteAnswers(inner, len) ==
    IF inner = "Stdout" THEN HostWrites(len)
    ELSE IF inner = "Stderr" THEN {host \in HostWrites(len) : host.flush_ok}
    ELSE {Unasked}

\* fd.read(communicate_allowed, ptr, len, finish, ecx)
read(h, communicate_allowed, len) ==
    /\ h \in Live
    /\ \E host \in ReadAnswers(rc[h].inner, communicate_allowed, len) :
          io_call("read", h, read_of(rc[h].inner, communicate_allowed, len, host, ecx))

\* fd.write(communicate_allowed, ptr, len, dest, ecx)
write(h, communicate_allowed, len) ==
    /\ h \in Live
    /\ \E host \in WriteAnswers(rc[h].inner, len) :
          io_call("write", h, write_of(rc[h].inner, communicate_allowed, len, host, ecx))

\* A shim hands the outcome of a read of its own to return_read_success.
read_success(bytes, actual_read_size) ==
    LET r == return_read_success(ecx, bytes, actual_read_size)
    IN  /\ ~panicked
        /\ ecx' = r.ecx
        /\ last' = [op |-> "return_read_success", ret |-> Some(r.ret), did |-> r.did]
        /\ UNCHANGED <<fds, next_file_description_id, rc, held, wheld,
                       epoll_interests, close_calls, panicked>>

\* The descriptor numbers a caller asks about: every open one, and MaxFd, which
\* is closed in most states.
Probes == DOMAIN fds \cup {MaxFd}

\* The strong handles to the file descriptions of init, under either setting
\* of mute_stdout_stderr.
Next ==
    \/ \E h \in Res : insert(h)
    \/ \E n \in Probes : get(n)
    \/ \E n \in Probes : remove(n)
    \/ \E h \in Res : clone(h)
    \/ \E h \in Res : drop(h)
    \/ \E h \in Res : close_ref(h)
    \/ \E h \in Res, T \in Inners : downcast(h, T)

Spec == Init /\ [][Next]_vars

\* File descriptions created after init, and the handles to them.
NextIds ==
    \/ \E inner \in NewInners : new_ref(inner)
    \/ \E inner \in NewInners : insert_new(inner)
    \/ \E h \in Res : insert(h)
    \/ \E n \in Probes : get(n)
    \/ \E n \in Probes : remove(n)
    \/ \E h \in Res : clone(h)
    \/ \E h \in Res : close_ref(h)

SpecIds == InitLoud /\ [][NextIds]_vars

\* Reads and writes on the descriptors of init, under either setting of
\* mute_stdout_stderr.
NextIo ==
    \/ \E n \in Probes : get(n)
    \/ \E h \in Res : drop(h)
    \/ \E h \in Res, c \in BOOLEAN, len \in Lens : read(h, c, len)
    \/ \E h \in Res, c \in BOOLEAN, len \in Lens : write(h, c, len)
    \/ \E len \in Lens :
          \E host \in HostReads(len) :
             host.ok /\ read_success(host.bytes, host.size)

SpecIo == Init /\ [][NextIo]_vars

\* The epoll interest registry beside the strong handles.
NextEpoll ==
    \/ \E h \in Res : insert(h)
    \/ \E n \in Probes : get(n)
    \/ \E n \in Probes : remove(n)
    \/ \E h \in Res : drop(h)
    \/ \E h \in Res : close_ref(h)
    \/ \E h \in Res : epoll_register(h)

SpecEpoll == InitLoud /\ [][NextEpoll]_vars

\* Every operation on the descriptor table and on strong handles.
NextTable ==
    \/ \E inner \in NewInners : new_ref(inner)
    \/ \E h \in Res : insert(h)
    \/ \E h \in Res, m \in MinNums : insert_with_min_num(h, m)
    \/ \E n \in Probes : get(n)
    \/ \E n \in Probes : remove(n)
    \/ \E h \in Res : clone(h)
    \/ \E h \in Res : drop(h)
    \/ \E h \in Res : close_ref(h)

SpecTable == InitLoud /\ [][NextTable]_vars

\* The descriptor table with every min_fd_num.
NextAlloc ==
    \/ \E inner \in NewInners : new_ref(inner)
    \/ \E inner \in NewInners : insert_new(inner)
    \/ \E h \in Res : insert(h)
    \/ \E h \in Res, m \in MinNums : insert_with_min_num(h, m)
    \/ \E n \in Probes : remove(n)
    \/ \E h \in Res : close_ref(h)

SpecAlloc == InitLoud /\ [][NextAlloc]_vars

\* Weak handles beside the strong ones.
NextWeak ==
    \/ \E h \in Res : insert(h)
    \/ \E n \in Probes : get(n)
    \/ \E n \in Probes : remove(n)
    \/ \E h \in Res : drop(h)
    \/ \E h \in Res : close_ref(h)
    \/ \E h \in Res : downgrade(h)
    \/ \E w \in Res : upgrade(w)
    \/ \E w \in Res : drop_weak(w)

SpecWeak == InitLoud /\ [][NextWeak]_vars

\* ------------------------------------------------------------ consistency

\* The strong count of every allocation is the number of handles to it.
Slots(h) == Cardinality({k \in DOMAIN fds : fds[k] = h})
CountsAgree ==
    \A h \in Live : /\ rc[h].strong = Slots(h) + held[h]
                    /\ rc[h].weak = wheld[h]

\* ------------------------------------------------------------ allocation

\* The step is a call of op.
Called(op) == last'.op = op

\* The lowest-free-slot oracle: the smallest number >= m that is no key.
LowestFree(keys, m) == Min({n \in m..(MaxFd + MaxMin + 1) : n \notin keys})

\* C1: in every reachable table and for every min_num, insert_with_min_num
\* returns the smallest integer >= min_num that is not a key of the table.
C1_ReturnsLowestFreeFromMin ==
    [][Called("insert_with_min_num") =>
          \A h \in Res, m \in MinNums :
              insert_with_min_num(h, m) => last'.ret = Some(LowestFree(DOMAIN fds, m))]_vars

\* C2, as stated: from the empty table three insert_with_min_num calls with
\* min_num = 5 return 5, 6 and 7, remove(6) leaves 5 and 7, and the next
\* insert_with_min_num with min_num = 0 returns 6.
C2_ScenarioReturnsSix ==
    [][/\ Called("insert_with_min_num") =>
             \A h \in Res :
                 insert_with_min_num(h, 5) =>
                    /\ DOMAIN fds = {} => last'.ret = Some(5)
                    /\ DOMAIN fds = {5} => last'.ret = Some(6)
                    /\ DOMAIN fds = {5, 6} => last'.ret = Some(7)
       /\ DOMAIN fds = {5, 6, 7} /\ remove(6) => DOMAIN fds' = {5, 7}
       /\ DOMAIN fds = {5, 7} /\ Called("insert_with_min_num") =>
             \A h \in Res : insert_with_min_num(h, 0) => last'.ret = Some(6)]_vars

\* C2, amended: the same scenario, but after remove(6) the next
\* insert_with_min_num returns 0 for min_num = 0 and 6 (the gap) for
\* min_num = 5; in both cases no number above 7 is issued.
C2_ScenarioReturnsLowest ==
    [][/\ Called("insert_with_min_num") =>
             \A h \in Res :
                 insert_with_min_num(h, 5) =>
                    /\ DOMAIN fds = {} => last'.ret = Some(5)
                    /\ DOMAIN fds = {5} => last'.ret = Some(6)
                    /\ DOMAIN fds = {5, 6} => last'.ret = Some(7)
                    /\ DOMAIN fds = {5, 7} => last'.ret = Some(6)
       /\ DOMAIN fds = {5, 6, 7} /\ remove(6) => DOMAIN fds' = {5, 7}
       /\ DOMAIN fds = {5, 7} /\ Called("insert_with_min_num") =>
             \A h \in Res : insert_with_min_num(h, 0) => last'.ret = Some(0)]_vars

\* The scenario has run to its end: 5 and 7 are open and the last
\* insert_with_min_num returned 0.
C2_Witness ==
    /\ last.op = "insert_with_min_num"
    /\ last.ret = Some(0)
    /\ DOMAIN fds = {0, 5, 7}

\* C3: the number the allocation step chooses is never a key of the table,
\* for any min_num, and the unwrap of try_insert never fails.
C3_ChosenNumberIsFree ==
    /\ ~panicked
    /\ \A m \in MinNums : new_fd_num(DOMAIN fds, m) \notin DOMAIN fds

\* insert_with_min_num has just filled a gap between two open descriptors.
C3_Witness ==
    /\ last.op = "insert_with_min_num"
    /\ \E lo, hi \in DOMAIN fds : lo < last.ret[1] /\ last.ret[1] < hi

\* C7: init leaves exactly the keys 0, 1, 2 with its assertions holding:
\* stdin at 0, and at 1 and 2 stdout and stderr, or when muted two null sinks
\* that are different file descriptions with one strong handle each.
Loud(t) ==
    /\ t.rc[t.fds[1]].inner = "Stdout"
    /\ t.rc[t.fds[2]].inner = "Stderr"
Muted(t) ==
    /\ t.rc[t.fds[1]].inner = "NullOutput"
    /\ t.rc[t.fds[2]].inner = "NullOutput"
    /\ t.fds[1] # t.fds[2]
    /\ t.rc[t.fds[1]].id # t.rc[t.fds[2]].id
    /\ t.rc[t.fds[1]].strong = 1
    /\ t.rc[t.fds[2]].strong = 1
Bootstrapped(t) ==
    /\ t.ok
    /\ DOMAIN t.fds = {0, 1, 2}
    /\ t.rc[t.fds[0]].inner = "Stdin"
C7_InitBootstrapsThreeSlots ==
    /\ Bootstrapped(init(TRUE)) /\ Muted(init(TRUE))
    /\ Bootstrapped(init(FALSE)) /\ Loud(init(FALSE))
    /\ last.op = "init" =>
          LET t == [fds |-> fds, rc |-> rc, ok |-> ~panicked]
          IN  Bootstrapped(t) /\ (Muted(t) \/ Loud(t))

\* The table right after init(mute_stdout_stderr = true).
C7_Witness ==
    /\ last.op = "init"
    /\ rc[fds[1]].inner = "NullOutput"
    /\ rc[fds[2]].inner = "NullOutput"

\* C8: insert returns the smallest non-negative integer that is not a key,
\* which is what insert_with_min_num does for min_num = 0, and binds it to
\* the handle.
C8_InsertTakesLowestFreeSlot ==
    [][Called("insert") =>
          \A h \in Res :
              insert(h) =>
                 /\ last'.ret = Some(LowestFree(DOMAIN fds, 0))
                 /\ last'.ret = Some(new_fd_num(DOMAIN fds, 0))
                 /\ fds' = (LowestFree(DOMAIN fds, 0) :> h) @@ fds]_vars

\* insert has just reused a removed number below the greatest open one.
C8_Witness ==
    /\ last.op = "insert"
    /\ \E hi \in DOMAIN fds : last.ret[1] < hi

\* -------------------------------------------------------------- lifetimes

\* C4: close_ref on a handle that is not the last strong one reports success
\* and does not run the close logic; the close logic runs only in close_ref on
\* the last strong handle, and at most once per file description.
C4_DupSafeClose ==
    [][/\ Called("close_ref") =>
             \A h \in Live :
                 rc[h].strong > 1 /\ close_ref(h) =>
                    /\ last'.ret = Some("Ok")
                    /\ last'.did = <<>>
                    /\ close_calls' = close_calls
       /\ \A h \in Live :
             close_calls'[h] # close_calls[h] =>
                /\ close_ref(h)
                /\ rc[h].strong = 1
                /\ close_calls[h] = 0
                /\ close_calls'[h] = 1]_vars

\* close_ref has just returned success while another strong handle was alive.
C4_Witness ==
    /\ last.op = "close_ref"
    /\ last.ret = Some("Ok")

\* C5, as stated: the close logic has run exactly once wherever the strong
\* count is 0, and has not run wherever it is above 0.
C5_ClosedExactlyAtZero ==
    \A h \in Live :
        /\ rc[h].strong = 0 => close_calls[h] = 1
        /\ rc[h].strong > 0 => close_calls[h] = 0

\* C5, amended: the close logic runs exactly when close_ref consumes the last
\* strong handle (count 1 to 0), so at most once and never while the count is
\* above 0; a last handle that is dropped takes the count to 0 without it.
C5_ClosedExactlyByLastCloseRef ==
    [][\A h \in Live :
          /\ close_calls'[h] =
                close_calls[h] + (IF rc[h].strong = 1 /\ close_ref(h) THEN 1 ELSE 0)
          /\ close_calls'[h] <= 1
          /\ rc'[h].strong > 0 => close_calls'[h] = 0
          /\ close_calls'[h] = 1 => rc'[h].strong = 0
          /\ rc[h].strong = 1 /\ drop(h) =>
                rc'[h].strong = 0 /\ close_calls'[h] = 0]_vars

\* One file description was finalized by close_ref, another lost its last
\* strong handle by a drop.
C5_Witness ==
    \E a, b \in Live :
        /\ rc[a].strong = 0 /\ close_calls[a] = 1
        /\ rc[b].strong = 0 /\ close_calls[b] = 0

\* C6: the ids of the file descriptions ever created are pairwise different
\* and increase in creation order, a new one takes the allocator's value, which
\* only grows, and the id behind a handle never changes: not by cloning it, not
\* by inserting it, not by removing slots that hold it.
C6_IdsDistinctAndStable ==
    /\ [](/\ \A a, b \in Live : a < b => rc[a].id < rc[b].id
          /\ \A a \in Live : rc[a].id < next_file_description_id)
    /\ [][/\ \A h \in Live : rc'[h].id = rc[h].id
          /\ next_file_description_id' >= next_file_description_id
          /\ Called("new_ref") \/ Called("insert_new") =>
                \A inner \in NewInners :
                    new_ref(inner) \/ insert_new(inner) =>
                       /\ rc'[Len(rc')].id = next_file_description_id
                       /\ next_file_description_id' = next_file_description_id + 1
          /\ Called("clone") => \A h \in Res : clone(h) => last'.ret = Some(h)]_vars

\* A file description was created after an earlier one was removed and closed.
C6_Witness ==
    /\ last.op \in {"new_ref", "insert_new"}
    /\ \E a \in Live : close_calls[a] = 1 /\ rc[a].id < rc[Len(rc)].id

\* C9: downgrade adds no strong handle; upgrade returns a strong handle to
\* the same file description while its strong count is at least 1 and none
\* once it is 0, where it stays; close_ref on the last strong handle runs the
\* close logic whatever weak handles exist.
C9_WeakNeverKeepsAlive ==
    [][/\ Called("downgrade") =>
             \A h \in Res :
                 downgrade(h) =>
                    rc'[h].strong = rc[h].strong /\ close_calls' = close_calls
       /\ Called("upgrade") =>
             \A w \in Res :
                 upgrade(w) =>
                    IF rc[w].strong >= 1
                    THEN /\ last'.ret = Some(w)
                         /\ rc'[w].id = rc[w].id
                         /\ rc'[w].strong = rc[w].strong + 1
                    ELSE /\ last'.ret = NoneV
                         /\ rc' = rc
                         /\ held' = held
       /\ \A h \in Live : rc[h].strong = 0 => rc'[h].strong = 0
       /\ Called("close_ref") =>
             \A h \in Live :
                 rc[h].strong = 1 /\ close_ref(h) =>
                    close_calls'[h] = close_calls[h] + 1 /\ rc'[h].strong = 0]_vars

\* upgrade has just returned none on a weak handle that outlived its file
\* description, which close_ref finalized while the weak handle existed.
C9_Witness ==
    /\ last.op = "upgrade"
    /\ last.ret = NoneV
    /\ \E w \in Live : wheld[w] > 0 /\ rc[w].strong = 0 /\ close_calls[w] = 1

\* What close_ref does to the epoll interest registry.
CloseRefAndInterests ==
    Called("close_ref") =>
        \A h \in Live :
            close_ref(h) =>
               IF rc[h].strong = 1
               THEN /\ last'.did = <<"epoll_interests.remove", "close">>
                    /\ epoll_interests' = epoll_interests \ {rc[h].id}
               ELSE epoll_interests' = epoll_interests

\* C10, as stated: close_ref on the last strong handle removes the id from
\* epoll_interests before close, close_ref with other strong handles left
\* leaves epoll_interests alone, and no file description without a strong
\* handle has an entry.
C10_NoInterestWithoutStrongHandle ==
    [][/\ CloseRefAndInterests
       /\ \A h \in Live : rc'[h].strong = 0 => rc'[h].id \notin epoll_interests']_vars

\* C10, amended: as stated for close_ref, and an entry goes away only in the
\* close_ref that finalizes its file description, after which it has none; a
\* file description whose last strong handle is dropped keeps its entry.
C10_InterestDroppedByLastCloseRef ==
    [][/\ CloseRefAndInterests
       /\ \A h \in Live : close_calls'[h] = 1 => rc'[h].id \notin epoll_interests'
       /\ \A h \in Live :
             rc[h].id \in epoll_interests /\ rc'[h].id \notin epoll_interests' =>
                close_ref(h) /\ rc[h].strong = 1
       /\ Called("drop") => \A h \in Res : drop(h) => epoll_interests' = epoll_interests]_vars

\* close_ref has just finalized a file description, while the entry of one
\* whose last strong handle was dropped is still registered.
C10_Witness ==
    /\ last.op = "close_ref"
    /\ last.did # <<>>
    /\ \E h \in Live : rc[h].strong = 0 /\ close_calls[h] = 0 /\ rc[h].id \in epoll_interests

\* ------------------------------------------------------------ frame effects

\* C11: get never changes the table: it returns none when the number is no
\* key, and otherwise a new strong handle to the file description of the slot
\* (same id), raising its strong count by exactly one while the keys, every
\* slot and the identifier allocator stay as they are; and close_ref on a
\* removed handle does not finalize the file description while the handle
\* from get is still held.
C11_GetLeavesTableAlone ==
    [][/\ Called("get") =>
             \A n \in Probes :
                 get(n) =>
                    /\ fds' = fds
                    /\ next_file_description_id' = next_file_description_id
                    /\ close_calls' = close_calls
                    /\ IF n \in DOMAIN fds
                       THEN /\ last'.ret = Some(fds[n])
                            /\ rc'[fds[n]].id = rc[fds[n]].id
                            /\ rc'[fds[n]].strong = rc[fds[n]].strong + 1
                            /\ held'[fds[n]] = held[fds[n]] + 1
                            /\ \A h \in Live \ {fds[n]} : rc'[h] = rc[h]
                       ELSE /\ last'.ret = NoneV
                            /\ rc' = rc
                            /\ held' = held
       /\ Called("close_ref") =>
             \A h \in Live :
                 held[h] >= 2 /\ close_ref(h) =>
                    /\ last'.ret = Some("Ok")
                    /\ close_calls'[h] = 0
                    /\ rc'[h].strong >= 1]_vars

\* Descriptor 0 was looked up with get, then removed, and close_ref on the
\* removed handle has returned success: the handle from get is the only strong
\* handle left and the file description is not finalized.
C11_Witness ==
    /\ last.op = "close_ref"
    /\ last.ret = Some("Ok")
    /\ \E h \in Live :
          /\ Slots(h) = 0
          /\ held[h] = 1
          /\ rc[h].strong = 1
          /\ close_calls[h] = 0

\* C12: remove deletes only the key it is given and returns the handle that
\* was stored there, or none with the table unchanged when the number is no
\* key; every other slot keeps its file description, no strong count changes
\* (the table's handle becomes the caller's), the close logic does not run and
\* the epoll interest registry is not touched.
C12_RemoveDeletesOneKey ==
    [][Called("remove") =>
          \A n \in Probes :
              remove(n) =>
                 /\ rc' = rc
                 /\ close_calls' = close_calls
                 /\ epoll_interests' = epoll_interests
                 /\ next_file_description_id' = next_file_description_id
                 /\ ~is_fd_num(n)'
                 /\ \A k \in FdNums \ {n} : is_fd_num(k)' = is_fd_num(k)
                 /\ \A k \in DOMAIN fds' : fds'[k] = fds[k]
                 /\ IF is_fd_num(n)
                    THEN /\ last'.ret = Some(fds[n])
                         /\ held'[fds[n]] = held[fds[n]] + 1
                    ELSE /\ last'.ret = NoneV
                         /\ fds' = fds
                         /\ held' = held]_vars

\* remove has just returned the handle of a slot whose file description has
\* an epoll interest and is still bound to another descriptor.
C12_Witness ==
    /\ last.op = "remove"
    /\ last.ret # NoneV
    /\ rc[last.ret[1]].id \in epoll_interests
    /\ \E k \in DOMAIN fds : fds[k] = last.ret[1]

\* ---------------------------------------------------------- read and write

\* How often a call made the call named name, and with what.
Made(did, name) == {i \in DOMAIN did : did[i][1] = name}
Times(did, name) == Cardinality(Made(did, name))

\* The completion callback ran exactly once, as the last thing the call did,
\* with a byte count within the requested length or with an I/O error.
FinishedOnce(did, len) ==
    /\ Times(did, "finish.call") = 1
    /\ did[Len(did)][1] = "finish.call"
    /\ did[Len(did)][2] \in {Ok(k) : k \in 0..len} \cup {Err(e) : e \in IoErrors}

\* The answers of the host to a request for len bytes that return what did
\* records, if did began with such a request; none otherwise.
Answered(did, len) ==
    IF did # <<>> /\ did[1][1] = "Read::read" /\ did[1][2] = len
    THEN {host \in HostReads(len) : host_result(host) = did[1][3]}
    ELSE {}

\* C13, as stated: every read on standard input invokes the completion
\* callback exactly once before it returns, with a byte count or an I/O error,
\* for both values of communicate_allowed and whether the host read succeeds
\* or fails.
C13_CallbackOnceAlways ==
    [][Called("read") =>
          \A h \in Live :
              rc[h].inner = "Stdin" /\ held'[h] < held[h] =>
                 /\ \A len \in Lens :
                       read(h, FALSE, len) => FinishedOnce(last'.did, len)
                 /\ \A len \in Lens :
                       \/ Answered(last'.did, len) = {}
                       \/ FinishedOnce(last'.did, len)
                       \/ \A host \in Answered(last'.did, len) :
                             ~io_call("read", h, Stdin_read(TRUE, len, host, ecx))]_vars

\* C13, amended: with communicate_allowed the callback is invoked exactly
\* once before read returns, with the byte count or the I/O error the host
\* read returned; without it read fails with the isolation violation and the
\* callback is not invoked.
C13_CallbackOnceWhenAllowed ==
    [][Called("read") =>
          \A h \in Live :
              rc[h].inner = "Stdin" /\ held'[h] < held[h] =>
                 /\ \A len \in Lens :
                       read(h, FALSE, len) =>
                          /\ Times(last'.did, "finish.call") = 0
                          /\ last'.ret = Some(isolation_abort_error)
                 /\ \A len \in Lens :
                       \/ Answered(last'.did, len) = {}
                       \/ /\ FinishedOnce(last'.did, len)
                          /\ last'.did[Len(last'.did)][2] = last'.did[1][3]
                          /\ last'.ret = Some("Ok")
                       \/ \A host \in Answered(last'.did, len) :
                             ~io_call("read", h, Stdin_read(TRUE, len, host, ecx))]_vars

\* A read on standard input has just delivered a host error to the callback.
C13_Witness ==
    /\ last.op = "read"
    /\ last.did # <<>>
    /\ last.did[Len(last.did)] \in {<<"finish.call", Err(e)>> : e \in IoErrors}

\* C14: without communicate_allowed a read on standard input fails with the
\* isolation violation before any host read and without writing a byte of
\* guest memory, and the violation is the outcome of read itself, not an I/O
\* error value handed to the callback.
C14_IsolatedReadFailsFirst ==
    [][Called("read") =>
          \A h \in Live, len \in Lens :
              rc[h].inner = "Stdin" /\ read(h, FALSE, len) =>
                 /\ last'.ret = Some(isolation_abort_error)
                 /\ isolation_abort_error \notin IoErrors \cup {"Ok"}
                 /\ Times(last'.did, "Read::read") = 0
                 /\ Times(last'.did, "write_bytes_ptr") = 0
                 /\ Times(last'.did, "finish.call") = 0
                 /\ ecx' = ecx]_vars

\* A read on standard input has just failed with the isolation violation
\* while the guest buffer holds the bytes of an earlier read.
C14_Witness ==
    /\ last.op = "read"
    /\ last.ret = Some(isolation_abort_error)
    /\ \E i \in 1..MaxLen : ecx.mem[i] # 0

\* The guest buffer mem1 after a read into mem0 took k bytes of bytes: the
\* first k are those of bytes, every byte from offset k on is as it was.
ShortRead(mem0, mem1, bytes, k) ==
    \A i \in 1..MaxLen : mem1[i] = IF i <= k THEN bytes[i] ELSE mem0[i]

\* C15: for every requested length and every size k within it that the host
\* reports, a successful read on standard input writes exactly the first k
\* bytes of the host buffer into guest memory and reports k to the callback,
\* and return_read_success does the same and stores k; no guest byte from
\* offset k on is written. The first conjunct states it of the two functions
\* on every context reached, for every length, size and host buffer; the
\* second of every call made, whose size is the one the call reported.
C15_ShortReadWritesPrefix ==
    /\ [](\A len \in Lens : \A host \in HostReads(len) :
             host.ok =>
                LET r == Stdin_read(TRUE, len, host, ecx)
                    s == return_read_success(ecx, host.bytes, host.size)
                IN  /\ r.ret = "Ok"
                    /\ ShortRead(ecx.mem, r.ecx.mem, host.bytes, host.size)
                    /\ r.did[Len(r.did)] = <<"finish.call", Ok(host.size)>>
                    /\ Made(r.did, "write_bytes_ptr") = {2}
                    /\ Len(r.did[2][2]) = host.size
                    /\ s.ret = "Ok"
                    /\ ShortRead(ecx.mem, s.ecx.mem, host.bytes, host.size)
                    /\ s.ecx.dest = Some(host.size))
    /\ [][/\ Called("read") =>
                \A h \in Live :
                    /\ rc[h].inner = "Stdin"
                    /\ held'[h] < held[h]
                    /\ last'.did # <<>>
                    /\ last'.did[Len(last'.did)][1] = "finish.call"
                    /\ last'.did[Len(last'.did)][2][1] = "Ok"
                    => LET k == last'.did[Len(last'.did)][2][2]
                       IN  /\ last'.did[1] = <<"Read::read", last'.did[1][2], Ok(k)>>
                           /\ k <= last'.did[1][2]
                           /\ Made(last'.did, "write_bytes_ptr") = {2}
                           /\ ShortRead(ecx.mem, ecx'.mem, last'.did[2][2], k)
          /\ Called("return_read_success") =>
                /\ ecx'.dest # NoneV
                /\ ShortRead(ecx.mem, ecx'.mem, last'.did[1][2], ecx'.dest[1])]_vars

\* A read of two bytes on standard input has just reported one byte, and the
\* second byte of the guest buffer is still that of an earlier read.
C15_Witness ==
    /\ last.op = "read"
    /\ Len(last.did) = 3
    /\ last.did[1] = <<"Read::read", 2, Ok(1)>>
    /\ last.did[3] = <<"finish.call", Ok(1)>>
    /\ ecx.mem[2] # 0

\* C16: after init with mute_stdout_stderr, a write of any length to
\* descriptor 1 or 2, with or without communicate_allowed, stores exactly that
\* length as the result, performs no host write and reads no guest memory, and
\* leaves the file description bound to the other descriptor as it was.
C16_MutedWriteReportsLen ==
    [][Called("write") =>
          \A n \in {1, 2}, c \in BOOLEAN, len \in Lens :
              /\ rc[fds[n]].inner = "NullOutput"
              /\ write(fds[n], c, len)
              => /\ last'.ret = Some("Ok")
                 /\ last'.did = << <<"write_int", len>> >>
                 /\ ecx'.dest = Some(len)
                 /\ ecx'.mem = ecx.mem
                 /\ ecx'.last_error = ecx.last_error
                 /\ fds[1] # fds[2]
                 /\ rc'[fds[3 - n]] = rc[fds[3 - n]]
                 /\ fds' = fds
                 /\ close_calls' = close_calls]_vars

\* A write of two bytes to a muted descriptor has just reported two bytes.
C16_Witness ==
    /\ last.op = "write"
    /\ last.did = << <<"write_int", 2>> >>
    /\ ecx.dest = Some(2)
    /\ rc[fds[1]].inner = "NullOutput"
    /\ rc[fds[2]].inner = "NullOutput"

\* C17: host I/O failures are reported through the guest return convention
\* and never abort the operation: a write to standard output or standard error
\* proceeds with or without communicate_allowed and stores the byte count the
\* host reports, or sets the error code when the host fails, and a failed host
\* read on standard input with communicate_allowed delivers the error to the
\* callback; each of these calls returns normally.
C17_HostFailuresAreReported ==
    [][/\ Called("write") =>
             \A h \in Live, c \in BOOLEAN, len \in Lens :
                 rc[h].inner \in {"Stdout", "Stderr"} /\ write(h, c, len) =>
                    /\ last'.ret = Some("Ok")
                    /\ ~panicked'
                    /\ Times(last'.did, "Write::write") = 1
                    /\ \/ /\ ecx'.dest \in {Some(k) : k \in 0..len}
                          /\ ecx'.last_error = ecx.last_error
                       \/ /\ ecx'.dest = Some(-1)
                          /\ ecx'.last_error \in {Some(e) : e \in IoErrors}
       /\ Called("read") =>
             \A h \in Live, len \in Lens :
                 rc[h].inner = "Stdin" =>
                    \A host \in HostReads(len) :
                        /\ ~host.ok
                        /\ io_call("read", h, Stdin_read(TRUE, len, host, ecx))
                        => /\ last'.ret = Some("Ok")
                           /\ ~panicked'
                           /\ last'.did[Len(last'.did)] = <<"finish.call", Err(host.err[1])>>]_vars

\* ---------------------------------------------------------------- downcast

\* C18: downcast on a type-erased strong handle returns a handle of the
\* requested type to the same file description, with the same id and the
\* strong count unchanged, exactly when the requested type is the dynamic type
\* of the file description, and none otherwise; in the none case the handle
\* passed in is consumed, so the strong count drops by one, and the close
\* logic does not run.
C18_DowncastChecksTheType ==
    [][Called("downcast") =>
          \A h \in Live, T \in Inners :
              downcast(h, T) =>
                 /\ close_calls' = close_calls
                 /\ fds' = fds
                 /\ \A g \in Live \ {h} : rc'[g] = rc[g]
                 /\ rc'[h].id = rc[h].id
                 /\ IF rc[h].inner = T
                    THEN /\ last'.ret = Some(h)
                         /\ rc'[h].strong = rc[h].strong
                         /\ held' = held
                    ELSE /\ last'.ret = NoneV
                         /\ rc'[h].strong = rc[h].strong - 1
                         /\ held'[h] = held[h] - 1]_vars

\* downcast to a type the file description does not have has just returned
\* none and consumed its last strong handle; the close logic has not run.
C18_Witness ==
    /\ last.op = "downcast"
    /\ last.ret = NoneV
    /\ \E h \in Live : rc[h].strong = 0 /\ close_calls[h] = 0

\* ------------------------------------------------------ insertion's frame

\* C19: insert_with_min_num and insert add exactly one key, bound to the
\* handle the caller gave up, and change nothing else: every entry present before is bound
\* to the same file description afterwards, no strong count moves, and
\* next_file_description_id stays; next_file_description_id moves only in
\* new_ref and insert_new, by exactly one per call.
C19_InsertAddsOneKeyOnly ==
    [][/\ Called("insert") \/ Called("insert_with_min_num") =>
             /\ ~panicked'
             /\ last'.ret[1] \notin DOMAIN fds
             /\ DOMAIN fds' = DOMAIN fds \cup {last'.ret[1]}
             /\ \A k \in DOMAIN fds : fds'[k] = fds[k]
             /\ held'[fds'[last'.ret[1]]] = held[fds'[last'.ret[1]]] - 1
             /\ \A h \in Live \ {fds'[last'.ret[1]]} : held'[h] = held[h]
             /\ rc' = rc
             /\ close_calls' = close_calls
             /\ epoll_interests' = epoll_interests
             /\ next_file_description_id' = next_file_description_id
       /\ next_file_description_id' # next_file_description_id =>
             Called("new_ref") \/ Called("insert_new")
       /\ Called("new_ref") \/ Called("insert_new") =>
             next_file_description_id' = next_file_description_id + 1]_vars

\* insert_with_min_num has just bound a file description made by new_ref
\* next to two entries of init.
C19_Witness ==
    /\ last.op = "insert_with_min_num"
    /\ Len(rc) = 4
    /\ next_file_description_id = 4
    /\ Cardinality(DOMAIN fds) = 3
    /\ fds[last.ret[1]] = 4

\* ------------------------------------------------- entries stay open

\* C20: no entry of the descriptor table refers to a file description that
\* was finalized: in every state reached by init, new_ref, insert,
\* insert_with_min_num, get, remove, clone, drop and close_ref, the file
\* description of each entry has a strong count of at least 1 and its close
\* logic has not run, so get on an open descriptor number returns a handle to
\* a file description that is still open.
C20_EntriesAreOpen ==
    /\ [](\A k \in DOMAIN fds :
             /\ fds[k] \in Live
             /\ rc[fds[k]].strong >= 1
             /\ close_calls[fds[k]] = 0)
    /\ [][Called("get") =>
             \A n \in DOMAIN fds :
                 get(n) => /\ last'.ret = Some(fds[n])
                           /\ rc'[fds[n]].strong >= 2
                           /\ close_calls'[fds[n]] = 0]_vars

\* close_ref on a caller's handle has just returned without running the
\* close logic, because an entry still refers to the file description, while
\* another file description, removed from the table, has been closed.
C20_Witness ==
    /\ last.op = "close_ref"
    /\ last.did = <<>>
    /\ \E k \in DOMAIN fds : rc[fds[k]].strong = 1 /\ held[fds[k]] = 0
    /\ \E h \in Live : close_calls[h] = 1
====
